---- MODULE Spec2Model ----
(***************************************************************************)
(* Model of the Deriv signal servers of this repository:                   *)
(*   - the consolidated ensemble engine   (src/server.js, lines 71-270),   *)
(*   - the 1-tick prediction server       (src/unnamed/part_000),          *)
(*   - the tick simulator                 (src/server.js, lines 1-69).     *)
(*                                                                         *)
(* Numbers.  JavaScript numbers are IEEE doubles; the model uses fixed     *)
(* point integers, each quantity in its own unit:                          *)
(*   price          tenths of a price unit   (10000.7 is 100007)           *)
(*   sma            1/1800 of a price unit   (exact for n = 3, 9, 20)      *)
(*   stdev          1/1000 of a price unit                                 *)
(*   tanh argument  1/1000                                                 *)
(*   score, conf    1/1000000                                              *)
(*   time           milliseconds since the epoch, scaled down: StartNow   *)
(*                  stands for the epoch time at which the model starts    *)
(* NaN (Number(undefined)) is one reserved integer; every arithmetic and   *)
(* comparison helper below treats it as IEEE does.                         *)
(***************************************************************************)
EXTENDS Integers, Sequences, FiniteSets, TLC

VARIABLES
  variant,            \* which server runs: "ensemble" | "onetick"
  TOKEN,              \* process.env.DERIV_TOKEN is set (TRUE) or '' (FALSE)
  SIGNAL_COOLDOWN_MS, \* Number(process.env.SIGNAL_COOLDOWN_MS || 5000)
  bufMain, bufAlt,    \* server.js price buffers
  lastSignal,         \* server.js gate timestamp
  prices,             \* part_000 price buffer
  now,                \* Date.now()
  listening,          \* the server.listen callback has run
  sockets,            \* the WebSocket objects that have not emitted 'close'
  timers,             \* pending setTimeout(connectDeriv, 3000) callbacks
  out,                \* io.emit calls of the most recent handler run
  signals,            \* every signal emitted so far (id, ts, type), in order
  discarded,          \* some message was discarded by the catch block
  nTicks,             \* ticks ingested since Init: bounds the model
  simPrice, ticks,    \* simulator: `price` and `ticks` of server.js 10-11
  hist                \* every value pushed to each buffer, in arrival order

vars == <<variant, TOKEN, SIGNAL_COOLDOWN_MS, bufMain, bufAlt, lastSignal,
          prices, now, listening, sockets, timers, out, signals,
          discarded, nTicks, simPrice, ticks, hist>>

-----------------------------------------------------------------------------
(* Program constants                                                       *)

MAX_BUF == 1000
MAXBUF == 500
MIN_TICKS == 3
SIM_MAX_TICKS == 200
CONF_THRESHOLD == 600000
PARITY_THRESHOLD == 550000
MATCH_THRESHOLD == 600000
DEFAULT_COOLDOWN_MS == 5000
RECONNECT_MS == 3000
SIM_START_PRICE == 10000000
SIM_INTERVAL_MS == 1000
SYMBOL_MAIN == "R_100"
SYMBOL_ALT == "R_25"
SYMBOL == "R_100"

-----------------------------------------------------------------------------
(* Bounds of the model                                                     *)

MaxTicks == 2
MaxPushes == 3
MaxLive == 3
StartNow == 1000000
ScenSpan == 3

-----------------------------------------------------------------------------
(* IEEE helpers                                                            *)

NaN == -2000000000

IsNaN(a) == a = NaN
Add(a, b) == IF IsNaN(a) \/ IsNaN(b) THEN NaN ELSE a + b
Sub(a, b) == IF IsNaN(a) \/ IsNaN(b) THEN NaN ELSE a - b
Ge(a, b) == ~IsNaN(a) /\ ~IsNaN(b) /\ a >= b
Gt(a, b) == ~IsNaN(a) /\ ~IsNaN(b) /\ a > b
Lt(a, b) == ~IsNaN(a) /\ ~IsNaN(b) /\ a < b
Abs(a) == IF IsNaN(a) THEN NaN ELSE IF a < 0 THEN -a ELSE a
\* Math.min / Math.max return NaN when an argument is NaN
MathMin(a, b) == IF IsNaN(a) \/ IsNaN(b) THEN NaN ELSE IF a < b THEN a ELSE b
MathMax(a, b) == IF IsNaN(a) \/ IsNaN(b) THEN NaN ELSE IF a > b THEN a ELSE b

\* a % b of JavaScript: the sign of the result is the sign of a
JsRem(a, b) ==
  IF IsNaN(a) THEN NaN ELSE IF a >= 0 THEN a % b ELSE -((-a) % b)

\* Math.floor of a price in tenths, as a whole number
MathFloor(p) == IF IsNaN(p) THEN NaN ELSE p \div 10

\* arr.slice(-n)
SliceLast(arr, n) ==
  IF Len(arr) <= n THEN arr ELSE SubSeq(arr, Len(arr) - n + 1, Len(arr))

RECURSIVE SumSeq(_)
\* arr.reduce((a,b)=>a+b,0)
SumSeq(s) == IF s = <<>> THEN 0 ELSE Add(Head(s), SumSeq(Tail(s)))

RECURSIVE SqrtSearch(_, _, _)
SqrtSearch(lo, hi, k) ==
  IF lo >= hi THEN lo
  ELSE LET mid == (lo + hi + 1) \div 2
       IN IF mid * mid <= k THEN SqrtSearch(mid, hi, k)
          ELSE SqrtSearch(lo, mid - 1, k)

\* floor(sqrt(k)) for 0 <= k < 2^31
ISqrt(k) == SqrtSearch(0, 46340, k)

\* tanh(k/4) for k = 0..31, in millionths
TanhTab ==
  <<0, 244919, 462117, 635149, 761594, 848284, 905148, 941376, 964028,
    978026, 986614, 991860, 995055, 996998, 998178, 998894, 999329, 999593,
    999753, 999850, 999909, 999945, 999967, 999980, 999988, 999993, 999995,
    999997, 999998, 999999, 999999, 1000000>>

\* Math.tanh for x >= 0 in thousandths: the table, interpolated linearly;
\* from 7.75 on the result is 1 to six decimals
TanhPos(x) ==
  IF x >= 7750 THEN 1000000
  ELSE LET k == x \div 250
           lo == TanhTab[k + 1]
           hi == TanhTab[k + 2]
       IN lo + ((hi - lo) * (x - 250 * k)) \div 250

\* Math.tanh: odd, NaN for NaN
MathTanh(x) ==
  IF IsNaN(x) THEN NaN ELSE IF x < 0 THEN -TanhPos(-x) ELSE TanhPos(x)

\* v * num / den rounded toward zero, NaN for NaN
Scale(v, num, den) ==
  IF IsNaN(v) THEN NaN
  ELSE IF v < 0 THEN -(((-v) * num) \div den) ELSE (v * num) \div den

-----------------------------------------------------------------------------
(* server.js 94-139: buffers, features, ensemble, parity                   *)

\* pushBuf with pop() for shift(): on overflow the newest sample is dropped
pushBuf_pop(buf, price) ==
  LET pushed == Append(buf, price)
  IN IF Len(pushed) > MAX_BUF THEN SubSeq(pushed, 1, MAX_BUF) ELSE pushed

\* pushBuf(buf, price): the buffer after the call
pushBuf(buf, price) ==
  LET pushed == Append(buf, price)
  IN IF Len(pushed) > MAX_BUF THEN Tail(pushed) ELSE pushed

\* the result of sma: null, or a number
Null == [null |-> TRUE, val |-> 0]
Num(v) == [null |-> FALSE, val |-> v]
\* null in arithmetic is 0
ToNumber(r) == IF r.null THEN 0 ELSE r.val

\* sma(arr, n), in 1/1800 of a price unit
sma(arr, n) ==
  IF Len(arr) < n THEN Null
  ELSE LET s == SumSeq(SliceLast(arr, n))
       IN Num(IF IsNaN(s) THEN NaN ELSE s * (180 \div n))

RECURSIVE SumSqDev(_, _)
SumSqDev(s, base) ==
  IF s = <<>> THEN 0
  ELSE Add(IF IsNaN(Head(s)) THEN NaN
           ELSE (Head(s) - base) * (Head(s) - base),
           SumSqDev(Tail(s), base))

RECURSIVE SumDev(_, _)
SumDev(s, base) ==
  IF s = <<>> THEN 0 ELSE Add(Sub(Head(s), base), SumDev(Tail(s), base))

\* stdev(arr, n), in 1/1000 of a price unit: the population deviation
\* sqrt(sum((b-mean)^2)/n) = sqrt(n*Q - S*S)/n, with S and Q the sums of the
\* deviations from the first sample of the window and of their squares
StdevOf(S, Q, n) ==
  IF IsNaN(S) \/ IsNaN(Q) THEN NaN
  ELSE IF n * Q - S * S <= 200000
       THEN ISqrt((n * Q - S * S) * 10000) \div n
       ELSE (ISqrt(n * Q - S * S) * 100) \div n

StdevSlice(sl, n) == StdevOf(SumDev(sl, sl[1]), SumSqDev(sl, sl[1]), n)

stdev(arr, n) == IF Len(arr) < n THEN 0 ELSE StdevSlice(SliceLast(arr, n), n)

\* vol5/(vol20+1e-9) in thousandths; with vol20 = 0 the quotient is vol5*1e9,
\* far beyond the point where tanh is 1
\* vol5/vol20 without the 1e-9: 0/0 is NaN
VolRatio_noeps(vol5, vol20) ==
  IF IsNaN(vol5) \/ IsNaN(vol20) THEN NaN
  ELSE IF vol20 = 0 THEN (IF vol5 = 0 THEN NaN ELSE 1000000)
  ELSE (vol5 * 1000) \div vol20

VolRatio(vol5, vol20) ==
  IF IsNaN(vol5) \/ IsNaN(vol20) THEN NaN
  ELSE IF vol20 = 0 THEN (IF vol5 = 0 THEN 0 ELSE 1000000)
  ELSE (vol5 * 1000) \div vol20

Clamp01(raw) == MathMax(0, MathMin(1000000, raw))

\* lines 122-131 of computeEnsemble, from the three features
\* (momentum and trend in 1/1800, volRatio in thousandths).
\* x/2 of a value in 1/1800 is x * 1000 / 3600 thousandths
EnsembleOf(momentum, trend, volRatio) ==
  LET mScore == Scale(Add(MathTanh(Scale(momentum, 5, 18)), 1000000), 1, 2)
      tScore == Scale(Add(MathTanh(Scale(trend, 5, 18)), 1000000), 1, 2)
      vScore == Sub(1000000, MathTanh(volRatio))
      \* weights = {m:0.5, t:0.35, v:0.15}
      raw == Scale(Add(Add(Scale(mScore, 50, 1), Scale(tScore, 35, 1)),
                       Scale(vScore, 15, 1)), 1, 100)
  IN [score |-> Clamp01(raw),
      direction |-> IF Ge(Add(momentum, trend), 0) THEN "over" ELSE "under",
      details |-> TRUE,
      mScore |-> mScore, tScore |-> tScore, vScore |-> vScore,
      momentum |-> momentum, trend |-> trend, volRatio |-> volRatio]

\* momentum and trend with the averages subtracted the other way round
FeaturesOf_swapped(ma3, ma9, ma20, volRatio) ==
  EnsembleOf(Sub(ToNumber(ma9), ToNumber(ma3)),
             Sub(ToNumber(ma20), ToNumber(ma9)), volRatio)

\* lines 118-119: momentum and trend from the three averages
FeaturesOf(ma3, ma9, ma20, volRatio) ==
  EnsembleOf(Sub(ToNumber(ma3), ToNumber(ma9)),
             Sub(ToNumber(ma9), ToNumber(ma20)), volRatio)

\* computeEnsemble(prices)
computeEnsemble(ps) ==
  IF Len(ps) < 12
  THEN [score |-> 0, direction |-> "none", details |-> FALSE,
        mScore |-> 0, tScore |-> 0, vScore |-> 0,
        momentum |-> 0, trend |-> 0, volRatio |-> 0]
  ELSE FeaturesOf(sma(ps, 3), sma(ps, 9), sma(ps, 20),
                  VolRatio(stdev(ps, 5), stdev(ps, 20)))

\* parityConfidence with the bonus 0.05 of the 1-tick predictor
parityConfidence_bonus05(price) ==
  LET last == JsRem(MathFloor(price), 10)
      even == (JsRem(last, 2) = 0)
      bonus == IF last \in {0, 2, 4, 6, 8} THEN 50000 ELSE 0
      conf == MathMin(990000, 500000 + bonus)
  IN [parity |-> IF even THEN "even" ELSE "odd", conf |-> conf]

\* parityConfidence(price)
parityConfidence(price) ==
  LET last == JsRem(MathFloor(price), 10)
      even == (JsRem(last, 2) = 0)
      bonus == IF last \in {0, 2, 4, 6, 8} THEN 30000 ELSE 0
      conf == MathMin(990000, 500000 + bonus)
  IN [parity |-> IF even THEN "even" ELSE "odd", conf |-> conf]

-----------------------------------------------------------------------------
(* server.js 141-205: the signal gate                                      *)

SigId(n, sfx) == [n |-> n, sfx |-> sfx]

SignalEvent(id, ts, type, direction, price, confidence) ==
  [ev |-> "signal", id |-> id, ts |-> ts, type |-> type,
   direction |-> direction, price |-> price, confidence |-> confidence]

TickEvent(ts, price, symbol) ==
  [ev |-> "tick", ts |-> ts, price |-> price, symbol |-> symbol]

\* the cooldown test of lines 145, 167 and 183: (now - lastSignal) >= cooldown
CooldownElapsed(t, ls, cooldown) == t - ls >= cooldown

\* the confidence of the matches candidate, lines 184-187
MatchDiff(bm, ba) ==
  Sub(Sub(ToNumber(sma(bm, 3)), ToNumber(sma(bm, 9))),
      Sub(ToNumber(sma(ba, 3)), ToNumber(sma(ba, 9))))

\* Math.min(0.95, Math.abs(diff)/5 + 0.45): diff in 1/1800, so /9000
MatchConf(diff) == MathMin(950000, Add(Scale(Abs(diff), 1000, 9), 450000))

\* the over_under candidate with `lastSignal = now` ahead of the threshold test
OverUnderStep_stamp(g, ensemble, priceMain, t) ==
  IF Ge(ensemble.score, CONF_THRESHOLD)
  THEN [lastSignal |-> t,
        emitted |-> Append(g.emitted,
                      SignalEvent(SigId(t, ""), t, "over_under",
                                  ensemble.direction, priceMain,
                                  ensemble.score))]
  ELSE [lastSignal |-> t, emitted |-> g.emitted]

\* the over_under candidate without `lastSignal = now`
OverUnderStep_nostamp(g, ensemble, priceMain, t) ==
  IF Ge(ensemble.score, CONF_THRESHOLD)
  THEN [lastSignal |-> g.lastSignal,
        emitted |-> Append(g.emitted,
                      SignalEvent(SigId(t, ""), t, "over_under",
                                  ensemble.direction, priceMain,
                                  ensemble.score))]
  ELSE g

\* lines 150-165: the over_under candidate, on the gate state
\* g = [lastSignal, emitted]
OverUnderStep(g, ensemble, priceMain, t) ==
  IF Ge(ensemble.score, CONF_THRESHOLD)
  THEN [lastSignal |-> t,
        emitted |-> Append(g.emitted,
                      SignalEvent(SigId(t, ""), t, "over_under",
                                  ensemble.direction, priceMain,
                                  ensemble.score))]
  ELSE g

\* lines 167-181: the even_odd candidate
ParityStep(g, parity, priceMain, t, cooldown) ==
  IF Ge(parity.conf, PARITY_THRESHOLD)
     /\ CooldownElapsed(t, g.lastSignal, cooldown)
  THEN [lastSignal |-> t,
        emitted |-> Append(g.emitted,
                      SignalEvent(SigId(t, "_par"), t, "even_odd",
                                  parity.parity, priceMain, parity.conf))]
  ELSE g

\* lines 186-203: the matches candidate, from diff
MatchEmit(g, diff, priceMain, t) ==
  IF Gt(MatchConf(diff), MATCH_THRESHOLD)
  THEN [lastSignal |-> t,
        emitted |-> Append(g.emitted,
                      SignalEvent(SigId(t, "_match"), t, "matches",
                                  IF Gt(diff, 0) THEN SYMBOL_MAIN
                                  ELSE SYMBOL_ALT,
                                  priceMain, MatchConf(diff)))]
  ELSE g

\* lines 183-204: the matches candidate
MatchStep(g, bm, ba, priceMain, t, cooldown) ==
  IF Len(bm) >= 9 /\ Len(ba) >= 9
     /\ CooldownElapsed(t, g.lastSignal, cooldown)
  THEN MatchEmit(g, MatchDiff(bm, ba), priceMain, t)
  ELSE g

\* maybeEmitSignals(priceMain) run at time t with gate ls on buffers bm, ba:
\* the new gate timestamp and the signal events emitted, in order
maybeEmitSignals(priceMain, bm, ba, ls, t, cooldown) ==
  IF ~CooldownElapsed(t, ls, cooldown)
  THEN [lastSignal |-> ls, emitted |-> <<>>]
  ELSE MatchStep(
         ParityStep(
           OverUnderStep([lastSignal |-> ls, emitted |-> <<>>],
                         computeEnsemble(bm), priceMain, t),
           parityConfidence(priceMain), priceMain, t, cooldown),
         bm, ba, priceMain, t, cooldown)

-----------------------------------------------------------------------------
(* part_000 21-53: the 1-tick predictor                                    *)

\* pushPrice(p): the buffer after the call
pushPrice(buf, p) ==
  LET pushed == Append(buf, p)
  IN IF Len(pushed) > MAXBUF THEN Tail(pushed) ELSE pushed

\* Number(x.toFixed(3)) of a value in millionths
ToFixed3(c) == IF IsNaN(c) THEN NaN ELSE ((c + 500) \div 1000) * 1000

\* lines 38-41 from twice the momentum, in tenths
OverUnder1(mom2, p0) ==
  LET \* Math.max(1, Math.abs(p0)/1000 + 1e-9), in hundredths
      den == MathMax(100, Scale(Abs(p0), 1, 100))
      \* momentum / den in thousandths: (mom2/20) / (den/100) * 1000
      raw == MathTanh(IF IsNaN(mom2) \/ IsNaN(den) THEN NaN
                      ELSE Scale(mom2, 5000, den))
  IN [direction |-> IF Ge(mom2, 0) THEN "over" ELSE "under",
      confidence |-> ToFixed3(MathMax(10000,
                        MathMin(990000, Add(500000, Scale(raw, 1, 2)))))]

\* lines 43-45 from the last digit
Parity1(lastDigit) ==
  [parity |-> IF JsRem(lastDigit, 2) = 0 THEN "even" ELSE "odd",
   parityConf |-> ToFixed3(MathMin(990000,
                     500000 + (IF lastDigit \in {0, 2, 4, 6, 8}
                               THEN 50000 ELSE 0)))]

Prediction1(ou, par, p0, t) ==
  [ok |-> TRUE, ts |-> t, price |-> p0,
   direction |-> ou.direction, confidence |-> ou.confidence,
   parity |-> par.parity, parityConf |-> par.parityConf]

\* momentum = (p0 - p1) + 0.5*(p1 - p2), doubled
Predict1(p0, p1, p2, t) ==
  Prediction1(OverUnder1(Add(Scale(Sub(p0, p1), 2, 1), Sub(p1, p2)), p0),
              Parity1(JsRem(MathFloor(p0), 10)), p0, t)

\* compute1TickPrediction(): FALSE in `ok` stands for null
compute1TickPrediction(ps, t) ==
  IF Len(ps) < MIN_TICKS
  THEN [ok |-> FALSE]
  ELSE Predict1(ps[Len(ps)], ps[Len(ps) - 1], ps[Len(ps) - 2], t)

-----------------------------------------------------------------------------
(* Upstream messages                                                       *)

\* JSON.parse(msg): `json` is FALSE for text that does not parse (or parses
\* to null); symbol "" stands for a missing symbol; hasQuote FALSE for a
\* missing quote; a quote that is no number is NaN
Garbage == [json |-> FALSE, authorize |-> FALSE, error |-> FALSE,
            tick |-> FALSE, symbol |-> "", hasQuote |-> FALSE, quote |-> 0]
AuthAck == [json |-> TRUE, authorize |-> TRUE, error |-> FALSE,
            tick |-> FALSE, symbol |-> "", hasQuote |-> FALSE, quote |-> 0]
ErrorReply == [json |-> TRUE, authorize |-> FALSE, error |-> TRUE,
               tick |-> FALSE, symbol |-> "", hasQuote |-> FALSE, quote |-> 0]
Tick(sym, q) == [json |-> TRUE, authorize |-> FALSE, error |-> FALSE,
                 tick |-> TRUE, symbol |-> sym, hasQuote |-> TRUE, quote |-> q]
TickNoQuote(sym) ==
  [json |-> TRUE, authorize |-> FALSE, error |-> FALSE,
   tick |-> TRUE, symbol |-> sym, hasQuote |-> FALSE, quote |-> 0]

\* Number(data.tick.quote)
QuoteNumber(m) == IF m.hasQuote THEN m.quote ELSE NaN

TickMessages ==
  {Tick(SYMBOL_MAIN, 1000), Tick(SYMBOL_MAIN, 900), Tick(SYMBOL_ALT, 2000),
   Tick("R_50", 1000), TickNoQuote(SYMBOL_MAIN)}

Messages == {Garbage, AuthAck, ErrorReply} \cup TickMessages

AuthorizeReq == [req |-> "authorize", arg |-> "token"]
TicksReq(sym) == [req |-> "ticks", arg |-> sym]

Requested(sock, r) == \E k \in 1..Len(sock.sent) : sock.sent[k] = r
Subscribed(sock) == \E k \in 1..Len(sock.sent) : sock.sent[k].req = "ticks"

\* what the feed sends: an authorize reply only to an authorize request that
\* is still open, ticks only after a tick subscription
FeedSends(sock, m) ==
  /\ m.authorize =>
       Requested(sock, AuthorizeReq) /\ ~sock.acked /\ ~sock.authErr
  /\ m.tick => Subscribed(sock)

\* ws.send(JSON.stringify(r)) on a socket
Send(sock, rs) == [sock EXCEPT !.sent = @ \o rs]

cfgVars == <<variant, TOKEN, SIGNAL_COOLDOWN_MS>>
engineVars == <<bufMain, bufAlt, lastSignal, prices, simPrice, ticks, hist,
                signals, nTicks>>
connVars == <<listening, sockets, timers>>
obsVars == <<out, discarded>>
clockVars == <<now>>

\* the 'signal' events and the 'tick' events among the emitted events es
SignalsIn(es) == SelectSeq(es, LAMBDA e : e.ev = "signal")
TicksIn(es) == SelectSeq(es, LAMBDA e : e.ev = "tick")

\* the entry of the signal log for an emitted signal event
LogEntry(e) == [id |-> e.id, ts |-> e.ts, type |-> e.type]
LogOf(es) == [k \in 1..Len(es) |-> LogEntry(es[k])]

\* data.tick.epoch * 1000: the feed stamps a tick with its own clock, in seconds
FeedTs(t) == (t \div 1000) * 1000

-----------------------------------------------------------------------------
(* server.js 208-256 and part_000 56-105: connectDeriv and its handlers    *)

NewSocket == [rs |-> "CONNECTING", sent |-> <<>>, acked |-> FALSE,
              authErr |-> FALSE]

\* connectDeriv(): new WebSocket(DERIV_WS) with the four handlers attached
connectDeriv(socks) == Append(socks, NewSocket)

\* server.listen(PORT, () => { ...; connectDeriv(); })
ListenCallback ==
  /\ variant \in {"ensemble", "onetick"}
  /\ ~listening
  /\ listening' = TRUE
  /\ sockets' = connectDeriv(sockets)
  /\ UNCHANGED <<cfgVars, engineVars, obsVars, clockVars, timers>>

\* an 'open' handler that sends the subscriptions together with the
\* authorize request
OpenRequests_eager ==
  IF TOKEN
  THEN <<AuthorizeReq, TicksReq(SYMBOL_MAIN), TicksReq(SYMBOL_ALT)>>
  ELSE <<TicksReq(SYMBOL_MAIN), TicksReq(SYMBOL_ALT)>>

\* the requests the 'open' handler sends
OpenRequests ==
  IF TOKEN THEN <<AuthorizeReq>>
  ELSE IF variant = "ensemble"
       THEN <<TicksReq(SYMBOL_MAIN), TicksReq(SYMBOL_ALT)>>
       ELSE <<TicksReq(SYMBOL)>>

\* the requests the 'message' handler sends on data.authorize
AuthorizedRequests ==
  IF variant = "ensemble"
  THEN <<TicksReq(SYMBOL_MAIN), TicksReq(SYMBOL_ALT)>>
  ELSE <<TicksReq(SYMBOL)>>

\* ws.on('open', ...)
OnOpen(i) ==
  /\ i \in 1..Len(sockets)
  /\ sockets[i].rs = "CONNECTING"
  /\ sockets' = [sockets EXCEPT ![i] = Send([@ EXCEPT !.rs = "OPEN"],
                                             OpenRequests)]
  /\ UNCHANGED <<cfgVars, engineVars, obsVars, clockVars, listening, timers>>

\* ws.on('error', ...): the handler only logs.  The ws library emits 'error'
\* with the socket already closing, and 'close' follows
OnError(i) ==
  /\ i \in 1..Len(sockets)
  /\ sockets[i].rs \in {"CONNECTING", "OPEN"}
  /\ sockets' = [sockets EXCEPT ![i].rs = "CLOSING"]
  /\ UNCHANGED <<cfgVars, engineVars, obsVars, clockVars, listening, timers>>

RemoveAt(s, i) == SubSeq(s, 1, i - 1) \o SubSeq(s, i + 1, Len(s))

\* a 'close' handler that schedules connectDeriv twice
CloseTimers_twice(ts) == Append(Append(ts, RECONNECT_MS), RECONNECT_MS)

\* a 'close' handler that only logs
CloseTimers_none(ts) == ts

\* the timers after the 'close' handler: setTimeout(connectDeriv, 3000)
CloseTimers(ts) == Append(ts, RECONNECT_MS)

\* ws.on('close', ...): emitted once per socket, by the peer closing an open
\* connection or after an error
OnClose(i) ==
  /\ i \in 1..Len(sockets)
  /\ sockets[i].rs \in {"OPEN", "CLOSING"}
  /\ Len(timers) < MaxLive
  /\ timers' = CloseTimers(timers)
  /\ sockets' = RemoveAt(sockets, i)
  /\ UNCHANGED <<cfgVars, engineVars, obsVars, clockVars, listening>>

\* a reconnect timer fires: connectDeriv()
TimerFire ==
  /\ timers # <<>>
  /\ Len(sockets) < MaxLive
  /\ timers' = Tail(timers)
  /\ sockets' = connectDeriv(sockets)
  /\ UNCHANGED <<cfgVars, engineVars, obsVars, clockVars, listening>>

-----------------------------------------------------------------------------
(* server.js 219-249: ws.on('message', ...) of the ensemble engine         *)

\* the tick event emitted after maybeEmitSignals(price) instead of before
EmitTick_after(symbol, price, bm2, ba2, g, t) ==
  [bufMain |-> bm2, bufAlt |-> ba2, lastSignal |-> g.lastSignal,
   out |-> g.emitted \o <<TickEvent(FeedTs(t), price, symbol)>>]

\* lines 242-244: io.emit('tick', ...) and then maybeEmitSignals(price)
EmitTick(symbol, price, bm2, ba2, g, t) ==
  [bufMain |-> bm2, bufAlt |-> ba2, lastSignal |-> g.lastSignal,
   out |-> <<TickEvent(FeedTs(t), price, symbol)>> \o g.emitted]

\* lines 235-244 with the symbol and the price of the tick
IngestSymbol(symbol, price, bm, ba, ls, t, cooldown) ==
  IF symbol = SYMBOL_ALT
  THEN EmitTick(symbol, price, bm, pushBuf(ba, price),
                maybeEmitSignals(price, bm, pushBuf(ba, price), ls, t, cooldown),
                t)
  ELSE EmitTick(symbol, price, pushBuf(bm, price), ba,
                maybeEmitSignals(price, pushBuf(bm, price), ba, ls, t, cooldown),
                t)

\* lines 231-245: the effect of a message with data.tick, as
\* [bufMain, bufAlt, lastSignal, out]
IngestTick(m, bm, ba, ls, t, cooldown) ==
  IngestSymbol(IF m.symbol = "" THEN SYMBOL_MAIN ELSE m.symbol,
               QuoteNumber(m), bm, ba, ls, t, cooldown)

\* the engine after a tick with effect r
ApplyTick(r, m) ==
  /\ bufMain' = r.bufMain
  /\ bufAlt' = r.bufAlt
  /\ lastSignal' = r.lastSignal
  /\ out' = r.out
  /\ signals' = signals \o LogOf(SignalsIn(r.out))

\* the ghost history of pushes after a tick
HistAfterTick(h, m) ==
  LET symbol == IF m.symbol = "" THEN SYMBOL_MAIN ELSE m.symbol
  IN IF symbol = SYMBOL_ALT
     THEN [h EXCEPT !.alt = Append(@, QuoteNumber(m))]
     ELSE [h EXCEPT !.main = Append(@, QuoteNumber(m))]

\* an error reply that answers an authorize request still open
AuthFailure(sock, m) ==
  m.json /\ ~m.authorize /\ m.error
  /\ Requested(sock, AuthorizeReq) /\ ~sock.acked

OnMessage(i, m) ==
  /\ variant = "ensemble"
  /\ i \in 1..Len(sockets)
  /\ sockets[i].rs = "OPEN"
  /\ FeedSends(sockets[i], m)
  /\ (m.json /\ ~m.authorize /\ m.tick) => nTicks < MaxTicks
  /\ IF ~m.json
     THEN \* JSON.parse throws: catch, log
          /\ out' = <<>>
          /\ discarded' = TRUE
          /\ UNCHANGED <<engineVars, sockets>>
     ELSE IF m.authorize
     THEN /\ sockets' = [sockets EXCEPT ![i] =
                           Send([@ EXCEPT !.acked = TRUE], AuthorizedRequests)]
          /\ out' = <<>>
          /\ UNCHANGED <<engineVars, discarded>>
     ELSE IF m.tick
     THEN /\ ApplyTick(IngestTick(m, bufMain, bufAlt, lastSignal, now,
                                  SIGNAL_COOLDOWN_MS), m)
          /\ hist' = HistAfterTick(hist, m)
          /\ nTicks' = nTicks + 1
          /\ UNCHANGED <<prices, simPrice, ticks, sockets, discarded>>
     ELSE /\ out' = <<>>
          /\ sockets' = [sockets EXCEPT ![i].authErr =
                           @ \/ AuthFailure(sockets[i], m)]
          /\ UNCHANGED <<engineVars, discarded>>
  /\ UNCHANGED <<cfgVars, clockVars, listening, timers>>

-----------------------------------------------------------------------------
(* part_000 64-98: ws.on('message', ...) of the 1-tick predictor           *)

\* lines 78-92: io.emit('tick', ...) and, with a prediction, io.emit('signal', ...)
EmitTick1(tick, ps2, pred, t) ==
  [prices |-> ps2,
   out |-> IF pred.ok
           THEN <<tick,
                  [ev |-> "signal", id |-> SigId(t, ""), ts |-> t,
                   type |-> "1_tick_prediction", direction |-> pred.direction,
                   price |-> pred.price, confidence |-> pred.confidence,
                   parity |-> pred.parity, parityConf |-> pred.parityConf]>>
           ELSE <<tick>>]

\* lines 75-93: the effect of a tick with a quote, as [prices, out]
IngestTick1(m, ps, t) ==
  EmitTick1(TickEvent(FeedTs(t), QuoteNumber(m),
                      IF m.symbol = "" THEN SYMBOL ELSE m.symbol),
            pushPrice(ps, QuoteNumber(m)),
            compute1TickPrediction(pushPrice(ps, QuoteNumber(m)), t), t)

ApplyTick1(r) ==
  /\ prices' = r.prices
  /\ out' = r.out
  /\ signals' = signals \o LogOf(SignalsIn(r.out))

OnMessage1Tick(i, m) ==
  /\ variant = "onetick"
  /\ i \in 1..Len(sockets)
  /\ sockets[i].rs = "OPEN"
  /\ FeedSends(sockets[i], m)
  /\ (m.json /\ ~m.authorize /\ m.tick /\ m.hasQuote) => nTicks < MaxTicks
  /\ IF ~m.json
     THEN /\ out' = <<>>
          /\ discarded' = TRUE
          /\ UNCHANGED <<engineVars, sockets>>
     ELSE IF m.authorize
     THEN /\ sockets' = [sockets EXCEPT ![i] =
                           Send([@ EXCEPT !.acked = TRUE], AuthorizedRequests)]
          /\ out' = <<>>
          /\ UNCHANGED <<engineVars, discarded>>
     ELSE IF m.tick /\ m.hasQuote
     THEN /\ ApplyTick1(IngestTick1(m, prices, now))
          /\ hist' = [hist EXCEPT !.prices = Append(@, QuoteNumber(m))]
          /\ nTicks' = nTicks + 1
          /\ UNCHANGED <<bufMain, bufAlt, lastSignal, simPrice, ticks,
                         sockets, discarded>>
     ELSE /\ out' = <<>>
          /\ sockets' = [sockets EXCEPT ![i].authErr =
                           @ \/ AuthFailure(sockets[i], m)]
          /\ UNCHANGED <<engineVars, discarded>>
  /\ UNCHANGED <<cfgVars, clockVars, listening, timers>>

-----------------------------------------------------------------------------
(* The clock                                                               *)

\* the clock readings after StartNow at which something happens: 1 s later
\* (inside the default cooldown), exactly the default cooldown later, and 1 s
\* after that
ClockReadings == {StartNow + 1000, StartNow + 5000, StartNow + 6000}

\* Date.now() moves on to t; the claims assume a clock that never goes back
Advance(t) ==
  /\ t > now
  /\ now' = t
  /\ UNCHANGED <<cfgVars, engineVars, connVars, obsVars>>

-----------------------------------------------------------------------------
(* server.js 10-58: the tick simulator.  `price` is kept in thousandths,   *)
(* a tick's price (two decimals) too                                       *)

\* Number(price.toFixed(2)) of a value in thousandths
ToFixed2(p) == ((p + 5) \div 10) * 10

SimPush(tk, tick) ==
  IF Len(tk) + 1 > SIM_MAX_TICKS THEN Tail(Append(tk, tick))
  ELSE Append(tk, tick)

\* lines 17-20 with the new price p2
SimTickOf(p2, tk, t) ==
  [price |-> p2,
   ticks |-> SimPush(tk, [ts |-> t, price |-> ToFixed2(p2)]),
   tick |-> [ts |-> t, price |-> ToFixed2(p2)]]

\* simulateTick() with (Math.random() - 0.5) * 4 = delta at time t:
\* the new price, the new ticks and the tick returned
simulateTick(p, tk, delta, t) ==
  SimTickOf(IF p + delta < 1000 THEN 1000 ELSE p + delta, tk, t)

PricesOf(tk) == [k \in 1..Len(tk) |-> tk[k].price]

\* lines 32-45 from avg3 - avg9 = d6/6 (0.2 is 200 thousandths)
SignalOf(d6, lastPrice, t) ==
  IF d6 > 1200 \/ d6 < -1200
  THEN [ok |-> TRUE,
        ev |-> "signal", id |-> SigId(t, ""), ts |-> t,
        type |-> "over_under",
        direction |-> IF d6 > 1200 THEN "over" ELSE "under",
        price |-> lastPrice,
        confidence |-> MathMin(990000, Scale(Abs(d6), 100, 3))]
  ELSE [ok |-> FALSE]

\* lines 27-30: last3 is slice(-3), last9 is slice(-9, -3), six prices
SignalOfPrices(ps, t) ==
  SignalOf(2 * SumSeq(SubSeq(ps, Len(ps) - 2, Len(ps)))
             - SumSeq(SubSeq(ps, Len(ps) - 8, Len(ps) - 3)),
           ps[Len(ps)], t)

\* generateSignal() at time t: `ok` FALSE stands for null
generateSignal(tk, t) ==
  IF Len(tk) < 12 THEN [ok |-> FALSE] ELSE SignalOfPrices(PricesOf(tk), t)

SimDeltas == {-2000, 0, 1999}

SimTickEvent(tick) == [ev |-> "tick", ts |-> tick.ts, price |-> tick.price]

\* lines 51-56: the events of one interval, from the signal g
SimEmit(tick, g) ==
  IF g.ok
  THEN <<SimTickEvent(tick),
         [ev |-> "signal", id |-> g.id, ts |-> g.ts, type |-> g.type,
          direction |-> g.direction, price |-> g.price,
          confidence |-> g.confidence]>>
  ELSE <<SimTickEvent(tick)>>

ApplyInterval(r, es) ==
  /\ simPrice' = r.price
  /\ ticks' = r.ticks
  /\ hist' = [hist EXCEPT !.ticks = Append(@, r.tick)]
  /\ out' = es
  /\ signals' = signals \o LogOf(SignalsIn(es))

IntervalAt(r, t) == ApplyInterval(r, SimEmit(r.tick, generateSignal(r.ticks, t)))

\* the setInterval callback of lines 49-58, run d ms after the previous one
Interval(delta, d) ==
  /\ variant = "simulator"
  /\ nTicks < MaxTicks
  /\ now' = now + d
  /\ IntervalAt(simulateTick(simPrice, ticks, delta, now + d), now + d)
  /\ nTicks' = nTicks + 1
  /\ UNCHANGED <<cfgVars, connVars, bufMain, bufAlt, lastSignal, prices,
                 discarded>>

-----------------------------------------------------------------------------
(* The servers                                                             *)

Rep(v, n) == [k \in 1..n |-> v]

\* the simulator's ticks after n intervals of delta 0, the last one at time t
SimTicks(n, t) ==
  [k \in 1..n |-> [ts |-> t - (n - k) * SIM_INTERVAL_MS,
                   price |-> ToFixed2(SIM_START_PRICE)]]

Cooldowns == {0, DEFAULT_COOLDOWN_MS}

\* The state after construction (cold), or a state the server is in after a
\* quiet start (warm): 11 main and 8 alt ticks of 100.0 on the first
\* connection (2 ticks for the predictor, 11 intervals for the simulator),
\* which is short of every signal
Init ==
  /\ variant \in {"ensemble", "onetick", "simulator"}
  /\ TOKEN \in (IF variant = "simulator" THEN {FALSE} ELSE BOOLEAN)
  /\ SIGNAL_COOLDOWN_MS \in
       (IF variant = "ensemble" THEN Cooldowns ELSE {DEFAULT_COOLDOWN_MS})
  /\ now = StartNow
  /\ nTicks = 0
  /\ lastSignal = 0
  /\ signals = <<>>
  /\ discarded = FALSE
  /\ timers = <<>>
  /\ \E warm \in BOOLEAN :
       /\ bufMain = IF warm /\ variant = "ensemble" THEN Rep(1000, 11) ELSE <<>>
       /\ bufAlt = IF warm /\ variant = "ensemble" THEN Rep(1000, 8) ELSE <<>>
       /\ prices = IF warm /\ variant = "onetick" THEN Rep(1000, 2) ELSE <<>>
       /\ ticks = IF warm /\ variant = "simulator"
                  THEN SimTicks(11, StartNow) ELSE <<>>
       /\ simPrice = SIM_START_PRICE
       /\ hist = [main |-> bufMain, alt |-> bufAlt, prices |-> prices,
                  ticks |-> ticks]
       /\ listening = (warm /\ variant # "simulator")
       /\ sockets = IF warm /\ variant # "simulator"
                    THEN <<[rs |-> "OPEN",
                            sent |-> OpenRequests \o
                                     (IF TOKEN THEN AuthorizedRequests ELSE <<>>),
                            acked |-> TOKEN, authErr |-> FALSE]>>
                    ELSE <<>>
       /\ out = IF ~warm THEN <<>>
                ELSE IF variant = "simulator"
                THEN <<SimTickEvent(SimTicks(11, StartNow)[11])>>
                ELSE <<TickEvent(FeedTs(StartNow), 1000,
                                 IF variant = "ensemble" THEN SYMBOL_ALT
                                 ELSE SYMBOL)>>

Next ==
  \/ ListenCallback
  \/ \E i \in 1..MaxLive : OnOpen(i)
  \/ \E i \in 1..MaxLive : OnError(i)
  \/ \E i \in 1..MaxLive : OnClose(i)
  \/ TimerFire
  \/ \E i \in 1..MaxLive, m \in Messages : OnMessage(i, m)
  \/ \E i \in 1..MaxLive, m \in Messages : OnMessage1Tick(i, m)
  \/ \E t \in ClockReadings : Advance(t)
  \/ \E delta \in SimDeltas, d \in {SIM_INTERVAL_MS, SIM_INTERVAL_MS + 1} :
       Interval(delta, d)

Spec == Init /\ [][Next]_vars

-----------------------------------------------------------------------------
(* The upstream connection alone: the messages that are no ticks leave the *)
(* engine as it is.  The timers of the event loop fire, and the ws library *)
(* emits 'close' after 'error': these two are the fairness of the runtime  *)

ControlMessages == {Garbage, AuthAck, ErrorReply}

InitConn == Init /\ variant \in {"ensemble", "onetick"}

CloseAfterError ==
  \E i \in 1..MaxLive :
    i <= Len(sockets) /\ sockets[i].rs = "CLOSING" /\ OnClose(i)

NextConn ==
  \/ ListenCallback
  \/ \E i \in 1..MaxLive : OnOpen(i)
  \/ \E i \in 1..MaxLive : OnError(i)
  \/ \E i \in 1..MaxLive : OnClose(i)
  \/ TimerFire
  \/ \E i \in 1..MaxLive, m \in ControlMessages : OnMessage(i, m)
  \/ \E i \in 1..MaxLive, m \in ControlMessages : OnMessage1Tick(i, m)

SpecConn ==
  /\ InitConn
  /\ [][NextConn]_vars
  /\ WF_vars(ListenCallback)
  /\ WF_vars(TimerFire)
  /\ WF_vars(CloseAfterError)

-----------------------------------------------------------------------------
(* The buffers alone: pushBuf, pushPrice and simulateTick applied to       *)
(* buffers that are empty, one short of their capacity, or full            *)

Pattern(n) == [k \in 1..n |-> 1000 + 10 * (k % 7)]

PushValues == {1000, 2000}

InitBuf ==
  /\ variant = "buffers"
  /\ TOKEN = FALSE
  /\ SIGNAL_COOLDOWN_MS = DEFAULT_COOLDOWN_MS
  /\ now = StartNow
  /\ nTicks = 0
  /\ lastSignal = 0
  /\ signals = <<>>
  /\ discarded = FALSE
  /\ timers = <<>>
  /\ listening = FALSE
  /\ sockets = <<>>
  /\ out = <<>>
  /\ simPrice = SIM_START_PRICE
  /\ \E short \in {0, 1}, full \in BOOLEAN :
       /\ bufMain = IF full THEN Pattern(MAX_BUF - short) ELSE <<>>
       /\ bufAlt = IF full THEN Pattern(MAX_BUF - short) ELSE <<>>
       /\ prices = IF full THEN Pattern(MAXBUF - short) ELSE <<>>
       /\ ticks = IF full THEN SimTicks(SIM_MAX_TICKS - short, StartNow)
                  ELSE <<>>
       /\ hist = [main |-> bufMain, alt |-> bufAlt, prices |-> prices,
                  ticks |-> ticks]

PushMain(p) ==
  /\ nTicks < MaxPushes
  /\ bufMain' = pushBuf(bufMain, p)
  /\ hist' = [hist EXCEPT !.main = Append(@, p)]
  /\ nTicks' = nTicks + 1
  /\ UNCHANGED <<cfgVars, connVars, obsVars, clockVars, bufAlt, lastSignal,
                 prices, simPrice, ticks, signals>>

PushAlt(p) ==
  /\ nTicks < MaxPushes
  /\ bufAlt' = pushBuf(bufAlt, p)
  /\ hist' = [hist EXCEPT !.alt = Append(@, p)]
  /\ nTicks' = nTicks + 1
  /\ UNCHANGED <<cfgVars, connVars, obsVars, clockVars, bufMain, lastSignal,
                 prices, simPrice, ticks, signals>>

PushPrice(p) ==
  /\ nTicks < MaxPushes
  /\ prices' = pushPrice(prices, p)
  /\ hist' = [hist EXCEPT !.prices = Append(@, p)]
  /\ nTicks' = nTicks + 1
  /\ UNCHANGED <<cfgVars, connVars, obsVars, clockVars, bufMain, bufAlt,
                 lastSignal, simPrice, ticks, signals>>

ApplySimTick(r) ==
  /\ simPrice' = r.price
  /\ ticks' = r.ticks
  /\ hist' = [hist EXCEPT !.ticks = Append(@, r.tick)]

SimTick(delta) ==
  /\ nTicks < MaxPushes
  /\ ApplySimTick(simulateTick(simPrice, ticks, delta, now))
  /\ nTicks' = nTicks + 1
  /\ UNCHANGED <<cfgVars, connVars, obsVars, clockVars, bufMain, bufAlt,
                 lastSignal, prices, signals>>

NextBuf ==
  \/ \E p \in PushValues : PushMain(p)
  \/ \E p \in PushValues : PushAlt(p)
  \/ \E p \in PushValues : PushPrice(p)
  \/ \E delta \in SimDeltas : SimTick(delta)

SpecBuf == InitBuf /\ [][NextBuf]_vars

-----------------------------------------------------------------------------
(* Claims                                                                  *)

-----------------------------------------------------------------------------
(* The ensemble engine on long price series: the main buffer holds a       *)
(* constant series or a series rising by 1.0 per tick, fed through the     *)
(* tick handler within one millisecond, one second ago; then more ticks    *)

\* the largest window of computeEnsemble
LARGEST_WINDOW == 20

Ramp(first, step, n) == [k \in 1..n |-> first + (k - 1) * step]

ScenSeries ==
  {Ramp(first, step, n) :
     first \in {10, 1000}, step \in {0, 10},
     n \in (LARGEST_WINDOW - ScenSpan)..(LARGEST_WINDOW + ScenSpan)}

\* the engine after the ticks qs, 12 or more, all handled at time t under
\* the default cooldown: the 12th tick, the first with a score, emitted the
\* one signal of that millisecond
InitAfter(qs, t) ==
  /\ bufMain = qs
  /\ bufAlt = <<>>
  /\ lastSignal = t
  /\ out = <<TickEvent(FeedTs(t), qs[Len(qs)], SYMBOL_MAIN)>>
  /\ signals = <<[id |-> SigId(t, ""), ts |-> t, type |-> "over_under"]>>
  /\ hist = [main |-> qs, alt |-> <<>>, prices |-> <<>>, ticks |-> <<>>]

InitScen ==
  /\ variant = "ensemble"
  /\ TOKEN = FALSE
  /\ SIGNAL_COOLDOWN_MS = DEFAULT_COOLDOWN_MS
  /\ now = StartNow
  /\ nTicks = 0
  /\ discarded = FALSE
  /\ timers = <<>>
  /\ prices = <<>>
  /\ ticks = <<>>
  /\ simPrice = SIM_START_PRICE
  /\ listening = TRUE
  /\ sockets = <<[rs |-> "OPEN", sent |-> OpenRequests, acked |-> FALSE,
                  authErr |-> FALSE]>>
  /\ \E qs \in ScenSeries : InitAfter(qs, StartNow - 1000)

\* the next quotes of the feed: the series goes on, stays, or jumps
ScenQuotes(b) == {b[Len(b)] + 10, b[Len(b)], -35, 1007, 1032}

NextScen ==
  \/ \E q \in ScenQuotes(bufMain) : OnMessage(1, Tick(SYMBOL_MAIN, q))
  \/ \E t \in ClockReadings : Advance(t)

SpecScen == InitScen /\ [][NextScen]_vars


\* the most recent min(count, capacity) values of a history, in arrival order
MostRecent(h, capacity) ==
  [k \in 1..(IF Len(h) < capacity THEN Len(h) ELSE capacity) |->
     h[Len(h) - (IF Len(h) < capacity THEN Len(h) ELSE capacity) + k]]

\* C1: after any sequence of pushes a buffer is never longer than its
\* capacity (1000 for bufMain and bufAlt, 500 for prices, 200 for ticks) and
\* holds exactly the most recent min(count, capacity) pushed values in
\* arrival order, so an overflow removes the oldest element and no other
C1_BoundedFifo ==
  /\ Len(bufMain) <= MAX_BUF /\ bufMain = MostRecent(hist.main, MAX_BUF)
  /\ Len(bufAlt) <= MAX_BUF /\ bufAlt = MostRecent(hist.alt, MAX_BUF)
  /\ Len(prices) <= MAXBUF /\ prices = MostRecent(hist.prices, MAXBUF)
  /\ Len(ticks) <= SIM_MAX_TICKS /\ ticks = MostRecent(hist.ticks, SIM_MAX_TICKS)

\* each of the three kinds of buffer has overflowed
C1_Witness ==
  /\ Len(hist.main) > MAX_BUF
  /\ Len(hist.prices) > MAXBUF
  /\ Len(hist.ticks) > SIM_MAX_TICKS

\* the types of the events es
TypesOf(es) == [k \in 1..Len(es) |-> es[k].type]

\* C2: in the ensemble engine every two consecutively emitted signals, of any
\* types, have emission timestamps at least SIGNAL_COOLDOWN_MS apart, and
\* the gate timestamp is the timestamp of the latest one
C2_CooldownSpacing ==
  variant = "ensemble" =>
    /\ \A k \in 1..(Len(signals) - 1) :
         signals[k + 1].ts - signals[k].ts >= SIGNAL_COOLDOWN_MS
    /\ signals # <<>> => lastSignal = signals[Len(signals)].ts

\* two signals were emitted under the default cooldown
C2_Witness ==
  /\ variant = "ensemble"
  /\ SIGNAL_COOLDOWN_MS = DEFAULT_COOLDOWN_MS
  /\ Len(signals) >= 2

\* C3: one evaluation cycle of the ensemble engine emits at most one signal
\* event, whatever the configured cooldown
C3_AtMostOnePerCycle ==
  variant = "ensemble" => Len(SignalsIn(out)) <= 1

\* the candidates of a cycle on buffers bm, ba for a tick of price p
QualOverUnder(bm) == Ge(computeEnsemble(bm).score, CONF_THRESHOLD)
QualParity(p) == Ge(parityConfidence(p).conf, PARITY_THRESHOLD)
QualMatches(bm, ba) ==
  Len(bm) >= 9 /\ Len(ba) >= 9
  /\ Gt(MatchConf(MatchDiff(bm, ba)), MATCH_THRESHOLD)

\* the signal types the priority rule admits in a cycle
Admitted(elapsed, ou, par, mt) ==
  IF ~elapsed THEN <<>>
  ELSE IF ou THEN <<"over_under">>
  ELSE IF par THEN <<"even_odd">>
  ELSE IF mt THEN <<"matches">>
  ELSE <<>>

\* C4: a cycle of the ensemble engine emits nothing before the cooldown has
\* elapsed, and otherwise exactly the highest-priority type, in the order
\* over_under, even_odd, matches, whose confidence meets its threshold
C4_Priority ==
  [][(variant = "ensemble" /\ nTicks' = nTicks + 1) =>
       TypesOf(Tail(out')) =
         Admitted(now - lastSignal >= SIGNAL_COOLDOWN_MS,
                  QualOverUnder(bufMain'),
                  QualParity(out'[1].price),
                  QualMatches(bufMain', bufAlt'))]_vars

\* C5: with fewer than 20 samples, all numbers, in the main buffer sma(20) is null,
\* computeEnsemble returns score 0 and direction none, and the cycle on that
\* buffer emits no over_under signal
C5_InsufficientData ==
  (/\ variant = "ensemble"
   /\ Len(bufMain) < 20
   /\ \A k \in 1..Len(bufMain) : ~IsNaN(bufMain[k])) =>
    /\ sma(bufMain, 20).null
    /\ computeEnsemble(bufMain).score = 0
    /\ computeEnsemble(bufMain).direction = "none"
    /\ \A k \in 1..Len(out) :
         out[k].ev = "signal" => out[k].type # "over_under"

\* the messages that are malformed: text that is no JSON, and a tick
\* without a quote
Malformed == {Garbage, TickNoQuote(SYMBOL_MAIN)}

\* C6: the handler run on a malformed message leaves the price buffers and
\* the gate timestamp as they are and emits no event
C6_MalformedDiscarded ==
  [][(\E i \in 1..MaxLive, m \in Malformed :
        OnMessage(i, m) \/ OnMessage1Tick(i, m)) =>
       (UNCHANGED <<bufMain, bufAlt, prices, lastSignal>> /\ out' = <<>>)]_vars

\* the connection is down: the server has started and no socket is
\* connecting or open
Down ==
  listening /\ \A i \in 1..Len(sockets) : sockets[i].rs \notin {"CONNECTING", "OPEN"}
Attempt == \E i \in 1..Len(sockets) : sockets[i].rs = "CONNECTING"

\* C7: once the server has started there is always a socket or a pending
\* reconnect timer, every timer has the fixed delay, and whenever the
\* connection is down a new connection attempt follows
C7_Reconnects ==
  /\ [](listening => (sockets # <<>> \/ timers # <<>>))
  /\ [](\A k \in 1..Len(timers) : timers[k] = RECONNECT_MS)
  /\ (Down ~> Attempt)

\* a socket has closed and the reconnect timer is pending
C7_Witness == listening /\ sockets = <<>> /\ timers = <<RECONNECT_MS>>

AuthFailed == \E i \in 1..Len(sockets) : sockets[i].authErr

\* C8: after an error reply to the authorize request the engine eventually
\* makes a new connection attempt
C8_AuthFailureReconnects == AuthFailed ~> Attempt

\* C9: the handler run that ingests a tick emits exactly one tick event, as
\* its first event, with the price it pushed, and only signal events after it
C9_TickBroadcast ==
  [][nTicks' = nTicks + 1 =>
       /\ Len(out') >= 1
       /\ out'[1].ev = "tick"
       /\ Len(TicksIn(out')) = 1
       /\ variant = "ensemble" =>
            out'[1].price = (IF out'[1].symbol = SYMBOL_ALT
                             THEN bufAlt'[Len(bufAlt')]
                             ELSE bufMain'[Len(bufMain')])]_vars

\* a tick of the alt symbol was broadcast and a signal after it
C9_Witness ==
  /\ variant = "ensemble"
  /\ Len(out) >= 2
  /\ out[1].ev = "tick" /\ out[1].symbol = SYMBOL_ALT
  /\ out[2].ev = "signal"

\* C10: no two emitted signals carry the same id
C10_UniqueIds ==
  \A j, k \in 1..Len(signals) : j # k => signals[j].id # signals[k].id

\* C11: the score of computeEnsemble on the main buffer, and the confidence
\* of every emitted over_under signal, is a number within [0,1]
C11_ScoreInUnitInterval ==
  variant = "ensemble" =>
    /\ computeEnsemble(bufMain).score \in 0..1000000
    /\ \A k \in 1..Len(out) :
         (out[k].ev = "signal" /\ out[k].type = "over_under") =>
           out[k].confidence \in 0..1000000

\* the main buffer holds 20 or more ticks, all of one price
ConstantPrice ==
  /\ variant = "ensemble"
  /\ Len(bufMain) >= LARGEST_WINDOW
  /\ \A k \in 1..Len(bufMain) : bufMain[k] = bufMain[1]

\* C12 (amended): on 20 or more identical ticks vol5 = vol20 = 0, volRatio = 0,
\* volScore = 1, momentum = trend = 0, the direction is over, and the score
\* is 0.5 * 0.5 + 0.35 * 0.5 + 0.15 * 1 = 0.575
C12_ConstantPrice ==
  ConstantPrice =>
    /\ stdev(bufMain, 5) = 0
    /\ stdev(bufMain, 20) = 0
    /\ computeEnsemble(bufMain).volRatio = 0
    /\ computeEnsemble(bufMain).vScore = 1000000
    /\ computeEnsemble(bufMain).momentum = 0
    /\ computeEnsemble(bufMain).trend = 0
    /\ computeEnsemble(bufMain).direction = "over"
    /\ computeEnsemble(bufMain).score = 575000

\* the 20th tick of 100.0 has been handled
C12_Witness ==
  ConstantPrice /\ Len(bufMain) = LARGEST_WINDOW /\ bufMain[1] = 1000
  /\ nTicks >= 1

\* C12 as stated: on 20 or more identical ticks the score is the weight of
\* the volatility term, 0.15, and the direction is over
C12_Original ==
  ConstantPrice =>
    /\ computeEnsemble(bufMain).direction = "over"
    /\ computeEnsemble(bufMain).score = 150000

\* C13: lastSignal is the timestamp of the most recently emitted signal, or
\* 0 before the first; a step that emits no signal leaves it unchanged, a
\* step that emits one sets it to the time of the emission, and it never
\* decreases
C13_GateFrame ==
  /\ [](variant = "ensemble" =>
          lastSignal = (IF signals = <<>> THEN 0
                        ELSE signals[Len(signals)].ts))
  /\ [][variant = "ensemble" =>
          /\ lastSignal' >= lastSignal
          /\ signals' = signals => lastSignal' = lastSignal
          /\ signals' # signals => lastSignal' = now]_vars

\* a cycle after an emission admitted nothing and left the gate timestamp
C13_Witness ==
  /\ variant = "ensemble"
  /\ nTicks >= 2
  /\ signals # <<>>
  /\ SignalsIn(out) = <<>> /\ out # <<>>
  /\ lastSignal > 0 /\ lastSignal < now

\* the parity rule for a price p: even exactly when floor(p) mod 10 is an
\* even digit, with confidence 0.5 plus the bonus when even and 0.5 when odd
ParityRule(p) ==
  /\ (parityConfidence(p).parity = "even") <=>
       ((MathFloor(p) % 10) \in {0, 2, 4, 6, 8})
  /\ parityConfidence(p).conf =
       (IF parityConfidence(p).parity = "even" THEN 530000 ELSE 500000)

\* C14: parityConfidence follows the parity rule on 10000.7 (even) and
\* 10003.2 (odd) and on every price ingested into the main buffer
C14_ParityOfDigit ==
  /\ parityConfidence(100007).parity = "even"
  /\ parityConfidence(100032).parity = "odd"
  /\ variant = "ensemble" =>
       \A k \in 1..Len(bufMain) :
         ~IsNaN(bufMain[k]) => ParityRule(bufMain[k])

\* the main buffer holds a series rising by 1.0 per tick
Uptrend ==
  /\ variant = "ensemble"
  /\ \A k \in 2..Len(bufMain) : bufMain[k] = bufMain[k - 1] + 10

\* C15: on a series rising by 1.0 per tick, from the 20th tick on, momentum
\* and trend are positive, the direction is over and the score exceeds 0.5
C15_Uptrend ==
  (Uptrend /\ Len(bufMain) >= LARGEST_WINDOW) =>
    /\ computeEnsemble(bufMain).momentum > 0
    /\ computeEnsemble(bufMain).trend > 0
    /\ computeEnsemble(bufMain).direction = "over"
    /\ computeEnsemble(bufMain).score > 500000

\* the 25th tick of the series 1.0, 2.0, ... has been handled
C15_Witness ==
  Uptrend /\ Len(bufMain) = 25 /\ bufMain[1] = 10 /\ nTicks >= 1

\* C16: sockets that are connecting, open or closing and pending reconnect
\* timers are never more than one in all
C16_SingleConnection == Len(sockets) + Len(timers) <= 1

\* the connection that received a tick has closed and its one successor is
\* being opened
C16_Witness ==
  /\ nTicks >= 1
  /\ Len(sockets) = 1 /\ sockets[1].rs = "CONNECTING"
  /\ timers = <<>>

\* C17: the handler run on a tick appends the price to the buffer of the
\* tick's symbol and leaves the other buffer as it is; on a tick of a symbol
\* that is neither the main nor the alt symbol it leaves both as they are
C17_OwnBuffer ==
  [][\A m \in TickMessages :
       (\E i \in 1..MaxLive : OnMessage(i, m)) =>
         /\ m.symbol = SYMBOL_MAIN =>
              (bufMain' = pushBuf(bufMain, QuoteNumber(m)) /\ bufAlt' = bufAlt)
         /\ m.symbol = SYMBOL_ALT =>
              (bufAlt' = pushBuf(bufAlt, QuoteNumber(m)) /\ bufMain' = bufMain)
         /\ m.symbol \notin {SYMBOL_MAIN, SYMBOL_ALT} =>
              UNCHANGED <<bufMain, bufAlt>>]_vars

\* C18: the price of every signal emitted by a cycle is the most recent
\* sample of the main buffer
C18_MainPrice ==
  variant = "ensemble" =>
    \A k \in 1..Len(out) :
      out[k].ev = "signal" =>
        (bufMain # <<>> /\ out[k].price = bufMain[Len(bufMain)])

\* C19: with a token a socket sends the authorize request first, on open,
\* and a tick subscription only after the authorize acknowledgement;
\* without a token an open socket has sent the subscriptions and no
\* authorize request
C19_AuthOrder ==
  \A i \in 1..Len(sockets) :
    /\ sockets[i].rs = "CONNECTING" => sockets[i].sent = <<>>
    /\ TOKEN =>
         /\ sockets[i].sent # <<>> => sockets[i].sent[1] = AuthorizeReq
         /\ Subscribed(sockets[i]) => sockets[i].acked
    /\ (~TOKEN /\ sockets[i].rs = "OPEN") =>
         /\ Subscribed(sockets[i])
         /\ ~Requested(sockets[i], AuthorizeReq)

\* after a cold start with a token the socket was opened, acknowledged and
\* subscribed
C19_Witness ==
  /\ TOKEN /\ variant = "ensemble" /\ hist.main = <<>>
  /\ Len(sockets) = 1
  /\ sockets[1].acked /\ Subscribed(sockets[1])

\* C20: the ensemble engine emits no even_odd signal, and the parity
\* confidence of every broadcast tick price is at most 0.53, below the
\* threshold of the even_odd candidate
C20_NoEvenOdd ==
  variant = "ensemble" =>
    /\ \A k \in 1..Len(signals) : signals[k].type # "even_odd"
    /\ \A k \in 1..Len(out) :
         out[k].ev = "tick" =>
           /\ parityConfidence(out[k].price).conf <= 530000
           /\ ~Ge(parityConfidence(out[k].price).conf, PARITY_THRESHOLD)

\* a cycle on a price of even digit with the cooldown elapsed admitted
\* nothing
C20_Witness ==
  /\ variant = "ensemble"
  /\ nTicks >= 1
  /\ Len(out) = 1 /\ out[1].ev = "tick"
  /\ parityConfidence(out[1].price).parity = "even"
  /\ now - lastSignal >= SIGNAL_COOLDOWN_MS

====
